---- MODULE Spec2Model ----
(***************************************************************************)
(* Model of the Git object orchestration of the GitHub MCP server          *)
(* (src/src/github/index.ts): pushFiles and the primitives it composes     *)
(* (createTree, createCommit, updateReference), getDefaultBranchSHA,       *)
(* getFileContents, createOrUpdateFile, createBranch and the tool-call     *)
(* boundary (callToolHandler and the handlers of the tools).               *)
(*                                                                         *)
(* The program keeps no state between calls: the state of the system is    *)
(* the remote repository (refs, commits, trees, file contents) plus, for   *)
(* every call in flight, the position of the async function and its        *)
(* locals.  Every `await fetch(...)` is one atomic step: the remote takes  *)
(* the request and answers it, or refuses it and changes nothing.          *)
(***************************************************************************)
EXTENDS Integers, Sequences, FiniteSets, TLC

VARIABLES
    refs,       \* remote: branch name -> commit sha it points at (NoSha: no such ref)
    commits,    \* remote: the commit objects, sha -> [message, tree, parents]
    trees,      \* remote: the tree objects that exist (a tree is its content)
    extMoves,   \* remote: how often another client has moved a branch
    push,       \* the pushFiles calls: position, arguments and locals of each
    resolve,    \* the getDefaultBranchSHA call: position and locals
    fetch,      \* the getFileContents call: position, arguments and locals
    write,      \* the createOrUpdateFile call: position, arguments and locals
    log,        \* the createOrUpdateFile calls that have ended, in order
    tool,       \* the callToolHandler call: position, request and locals of its handler
    exited,     \* the server process has ended
    rival       \* a second createOrUpdateFile call, made while the first is in flight

vars == <<refs, commits, trees, extMoves, push, resolve, fetch, write, log, tool, exited, rival>>

----------------------------------------------------------------------------
(* Bounds of the model *)

\* longest `files` array a pushFiles call is given
MaxFiles == 2
\* how often another client of the repository moves the branch
MaxExt == 1
\* how many createOrUpdateFile calls are made
MaxCalls == 2
\* how many tool calls the server is sent
MaxRequests == 2

----------------------------------------------------------------------------
(* Values *)

NoSha == 0
\* content of a path that a tree does not hold
Absent == "-"
Paths == {"a", "b"}
\* a path the remote refuses in a tree entry
EmptyPath == ""
OldContent == "o"
NewContent == "n"
RefNames == {"main", "master", "dev"}
Pushers == {1, 2}

\* the `message` argument of each pushFiles call
MessageOf(p) == IF p = 1 THEN "m1" ELSE "m2"

FileOperation == [path : Paths \cup {EmptyPath}, content : {NewContent}]

RECURSIVE SeqsUpTo(_, _)
SeqsUpTo(S, n) ==
    IF n = 0 THEN {<<>>}
    ELSE LET shorter == SeqsUpTo(S, n - 1)
         IN  shorter \cup {Append(s, x) : s \in {t \in shorter : Len(t) = n - 1}, x \in S}

\* the `files` arguments the calls are given
Batches == SeqsUpTo(FileOperation, MaxFiles) \ {<<>>}

EmptyTree == [p \in Paths |-> Absent]

----------------------------------------------------------------------------
(* HTTP responses, as far as the code reads them: response.ok,             *)
(* response.statusText and the parsed JSON body.                           *)

Response(ok, statusText, json) == [ok |-> ok, statusText |-> statusText, json |-> json]

Refused(statusText) == Response(FALSE, statusText, NoSha)

\* throw new Error(`GitHub API error: ${response.statusText}`)
GitHubApiError(response) == <<"GitHub API error", response.statusText>>

NoError == <<>>

----------------------------------------------------------------------------
(* The remote repository (the hosting API the code calls).  A request is   *)
(* taken whole or refused whole.                                           *)

IsCommit(sha) == sha \in 1..Len(commits)

\* a is b or an ancestor of b
RECURSIVE IsAncestorOrSelf(_, _)
IsAncestorOrSelf(a, b) ==
    \/ a = b
    \/ /\ IsCommit(b)
       /\ \E i \in 1..Len(commits[b].parents) : IsAncestorOrSelf(a, commits[b].parents[i])

\* the tree entries laid over a base tree, in order
RECURSIVE Overlay(_, _)
Overlay(base, entries) ==
    IF entries = <<>> THEN base
    ELSE LET e == entries[Len(entries)]
         IN  [Overlay(base, SubSeq(entries, 1, Len(entries) - 1)) EXCEPT ![e.path] = e.content]

\* GET /git/refs/heads/{branch}
RemoteGetRef(branch) ==
    IF refs[branch] # NoSha
    THEN Response(TRUE, "OK", refs[branch])
    ELSE Refused("Not Found")

\* POST /git/trees: every entry is accepted or the request is refused
RemoteTreeAccepts(body) ==
    /\ \A i \in 1..Len(body.tree) :
          /\ body.tree[i].path \in Paths
          /\ body.tree[i].mode = "100644"
          /\ body.tree[i].type = "blob"
    /\ body.base_tree = NoSha \/ IsCommit(body.base_tree)

\* a base_tree given as a commit sha is resolved to that commit's tree
RemoteNewTree(body) ==
    Overlay(IF body.base_tree = NoSha THEN EmptyTree ELSE commits[body.base_tree].tree,
            body.tree)

\* POST /git/commits
RemoteCommitAccepts(body) ==
    /\ body.tree \in trees
    /\ \A i \in 1..Len(body.parents) : IsCommit(body.parents[i])

\* every commit object gets a sha of its own
RemoteNewSha == Len(commits) + 1

\* PATCH /git/refs/{ref}: without force only a fast-forward is taken
RemoteRefAccepts(ref, body) ==
    /\ ref[1] = "heads"
    /\ ref[2] \in RefNames
    /\ refs[ref[2]] # NoSha
    /\ IsCommit(body.sha)
    /\ body.force \/ IsAncestorOrSelf(refs[ref[2]], body.sha)

RemoteRefRefusal(ref, body) ==
    IF ref[1] = "heads" /\ ref[2] \in RefNames /\ refs[ref[2]] # NoSha /\ IsCommit(body.sha)
    THEN Refused("Conflict")
    ELSE Refused("Unprocessable Entity")

\* a refusal for a reason that is not in the request
Unavailable == Refused("Internal Server Error")

\* another client of the repository moves an existing branch to an existing commit
ExtMove ==
    /\ extMoves < MaxExt
    /\ \E b \in RefNames, c \in 1..Len(commits) :
          /\ refs[b] # NoSha
          /\ refs[b] # c
          /\ refs' = [refs EXCEPT ![b] = c]
    /\ extMoves' = extMoves + 1
    /\ UNCHANGED <<commits, trees, push, resolve, fetch, write, log, tool, exited, rival>>

----------------------------------------------------------------------------
(* The request bodies the code builds *)

\* createTree sending no base_tree
createTreeBodyNoBase(files, baseTree) ==
    [tree |-> [i \in 1..Len(files) |->
                  [path |-> files[i].path, mode |-> "100644", type |-> "blob",
                   content |-> files[i].content]],
     base_tree |-> NoSha]

\* createTree leaving out the entries with an empty path
createTreeBodySkipEmpty(files, baseTree) ==
    LET kept == SelectSeq(files, LAMBDA f : f.path # EmptyPath)
    IN  [tree |-> [i \in 1..Len(kept) |->
                      [path |-> kept[i].path, mode |-> "100644", type |-> "blob",
                       content |-> kept[i].content]],
         base_tree |-> baseTree]

createTreeBody(files, baseTree) ==
    [tree |-> [i \in 1..Len(files) |->
                  [path |-> files[i].path, mode |-> "100644", type |-> "blob",
                   content |-> files[i].content]],
     base_tree |-> baseTree]

createCommitBody(message, tree, parents) ==
    [message |-> message, tree |-> tree, parents |-> parents]

updateReferenceBody(sha, force) == [sha |-> sha, force |-> force]

\* force defaulting to true
DefaultForceTrue == TRUE

\* the `force` parameter when the caller leaves it out
DefaultForce == FALSE

----------------------------------------------------------------------------
(* pushFiles *)

NoRequest == [ref |-> <<>>, sha |-> NoSha, force |-> FALSE]

Idle ==
    [pc |-> "idle", branch |-> "main", files |-> <<>>, message |-> "",
     latestCommitSha |-> NoSha, tree |-> EmptyTree, commit |-> NoSha,
     patch |-> NoRequest, error |-> NoError, calls |-> <<>>]

\* a tool call arrives: pushFiles(owner, repo, branch, files, message)
PushCall(p) ==
    /\ push[p].pc = "idle"
    /\ \E b \in {"main", "dev"}, fs \in Batches :
          push' = [push EXCEPT ![p] = [Idle EXCEPT !.pc = "getRef", !.branch = b,
                                                    !.files = fs, !.message = MessageOf(p)]]
    /\ UNCHANGED <<refs, commits, trees, extMoves>>
    /\ UNCHANGED <<resolve, fetch, write, log, tool, exited, rival>>

\* pushFiles going on after a failed read of the branch
pushFilesBranchThrowsNever(response) == FALSE

\* if (!branchResponse.ok) throw
pushFilesBranchThrows(response) == ~response.ok

\* step 1: read the branch reference
PushGetRef(p) ==
    /\ push[p].pc = "getRef"
    /\ \E response \in {RemoteGetRef(push[p].branch), Unavailable} :
          push' = [push EXCEPT ![p] =
                      IF pushFilesBranchThrows(response)
                      THEN [@ EXCEPT !.pc = "failed", !.calls = Append(@, "getRef"), !.error = GitHubApiError(response)]
                      ELSE [@ EXCEPT !.pc = "createTree", !.calls = Append(@, "getRef"), !.latestCommitSha = response.json]]
    /\ UNCHANGED <<refs, commits, trees, extMoves>>
    /\ UNCHANGED <<resolve, fetch, write, log, tool, exited, rival>>

\* createTree(owner, repo, files, latestCommitSha)
pushFilesTreeBody(p) == createTreeBody(push[p].files, push[p].latestCommitSha)

\* if (!response.ok) throw
createTreeThrows(response) == ~response.ok

\* step 2: create the tree
PushCreateTree(p) ==
    /\ push[p].pc = "createTree"
    /\ LET body == pushFilesTreeBody(p)
       IN  \E fault \in BOOLEAN :
             LET taken == ~fault /\ RemoteTreeAccepts(body)
                 response == IF taken THEN Response(TRUE, "Created", RemoteNewTree(body))
                             ELSE IF fault THEN Response(FALSE, "Internal Server Error", EmptyTree)
                             ELSE Response(FALSE, "Unprocessable Entity", EmptyTree)
             IN  /\ trees' = IF taken THEN trees \cup {response.json} ELSE trees
                 /\ push' = [push EXCEPT ![p] =
                               IF createTreeThrows(response)
                               THEN [@ EXCEPT !.pc = "failed", !.calls = Append(@, "createTree"), !.error = GitHubApiError(response)]
                               ELSE [@ EXCEPT !.pc = "createCommit", !.calls = Append(@, "createTree"), !.tree = response.json]]
    /\ UNCHANGED <<refs, commits, extMoves>>
    /\ UNCHANGED <<resolve, fetch, write, log, tool, exited, rival>>

\* pushFiles creating the commit without a parent
pushFilesCommitBodyNoParent(p) ==
    createCommitBody(push[p].message, push[p].tree, <<>>)

\* createCommit(owner, repo, message, tree.sha, [latestCommitSha])
pushFilesCommitBody(p) ==
    createCommitBody(push[p].message, push[p].tree, <<push[p].latestCommitSha>>)

\* if (!response.ok) throw
createCommitThrows(response) == ~response.ok

\* step 3: create the commit
PushCreateCommit(p) ==
    /\ push[p].pc = "createCommit"
    /\ LET body == pushFilesCommitBody(p)
       IN  \E fault \in BOOLEAN :
             LET taken == ~fault /\ RemoteCommitAccepts(body)
                 response == IF taken THEN Response(TRUE, "Created", RemoteNewSha)
                             ELSE IF fault THEN Unavailable
                             ELSE Refused("Unprocessable Entity")
             IN  /\ commits' = IF taken THEN Append(commits, body) ELSE commits
                 /\ push' = [push EXCEPT ![p] =
                               IF createCommitThrows(response)
                               THEN [@ EXCEPT !.pc = "failed", !.calls = Append(@, "createCommit"), !.error = GitHubApiError(response)]
                               ELSE [@ EXCEPT !.pc = "updateReference", !.calls = Append(@, "createCommit"), !.commit = response.json]]
    /\ UNCHANGED <<refs, trees, extMoves>>
    /\ UNCHANGED <<resolve, fetch, write, log, tool, exited, rival>>

\* pushFiles passing force = true
pushFilesForceTrue == TRUE

\* updateReference(owner, repo, `heads/${branch}`, commit.sha)
pushFilesForce == DefaultForce

\* pushFiles sending the tip it read in place of the commit it created
pushFilesPatchOfTip(p) ==
    [ref |-> <<"heads", push[p].branch>>, sha |-> push[p].latestCommitSha,
     force |-> pushFilesForce]

pushFilesPatch(p) ==
    [ref |-> <<"heads", push[p].branch>>, sha |-> push[p].commit, force |-> pushFilesForce]

\* updateReference with its check of response.ok inverted
updateReferenceThrowsInverted(response) == response.ok

\* if (!response.ok) throw
updateReferenceThrows(response) == ~response.ok

\* step 4: move the branch to the new commit
PushUpdateReference(p) ==
    /\ push[p].pc = "updateReference"
    /\ LET patch == pushFilesPatch(p)
           body == updateReferenceBody(patch.sha, patch.force)
       IN  \E fault \in BOOLEAN :
             LET taken == ~fault /\ RemoteRefAccepts(patch.ref, body)
                 response == IF taken THEN Response(TRUE, "OK", body.sha)
                             ELSE IF fault THEN Unavailable
                             ELSE RemoteRefRefusal(patch.ref, body)
             IN  /\ refs' = IF taken THEN [refs EXCEPT ![patch.ref[2]] = body.sha] ELSE refs
                 /\ push' = [push EXCEPT ![p] =
                               IF updateReferenceThrows(response)
                               THEN [@ EXCEPT !.pc = "failed", !.calls = Append(@, "updateReference"), !.patch = patch,
                                              !.error = GitHubApiError(response)]
                               ELSE [@ EXCEPT !.pc = "done", !.calls = Append(@, "updateReference"), !.patch = patch]]
    /\ UNCHANGED <<commits, trees, extMoves>>
    /\ UNCHANGED <<resolve, fetch, write, log, tool, exited, rival>>

----------------------------------------------------------------------------
(* getDefaultBranchSHA *)

NoResponse == Response(FALSE, "", NoSha)

ResolveIdle ==
    [pc |-> "idle", response |-> NoResponse, masterResponse |-> NoResponse,
     result |-> NoSha, error |-> NoError]

\* a call arrives: getDefaultBranchSHA(owner, repo); nothing is kept of earlier calls
ResolveCall ==
    /\ resolve.pc \in {"idle", "returned", "threw"}
    /\ resolve' = [ResolveIdle EXCEPT !.pc = "main"]
    /\ UNCHANGED <<refs, commits, trees, extMoves, push, fetch, write, log, tool, exited, rival>>

\* if (!response.ok) { ... fall back to master ... }
getDefaultBranchFallsBack(response) == ~response.ok

\* fetch(.../git/refs/heads/main)
ResolveMain ==
    /\ resolve.pc = "main"
    /\ \E fault \in BOOLEAN :
          LET response == IF fault THEN Unavailable ELSE RemoteGetRef("main")
          IN  resolve' = IF getDefaultBranchFallsBack(response)
                         THEN [resolve EXCEPT !.pc = "master", !.response = response]
                         ELSE [resolve EXCEPT !.pc = "returned", !.response = response,
                                              !.result = response.json]
    /\ UNCHANGED <<refs, commits, trees, extMoves, push, fetch, write, log, tool, exited, rival>>

\* if (!masterResponse.ok) throw
getDefaultBranchThrows(masterResponse) == ~masterResponse.ok

\* fetch(.../git/refs/heads/master)
ResolveMaster ==
    /\ resolve.pc = "master"
    /\ \E fault \in BOOLEAN :
          LET masterResponse == IF fault THEN Unavailable ELSE RemoteGetRef("master")
          IN  resolve' = IF getDefaultBranchThrows(masterResponse)
                         THEN [resolve EXCEPT !.pc = "threw", !.masterResponse = masterResponse,
                                  !.error = <<"Could not find default branch (tried 'main' and 'master')">>]
                         ELSE [resolve EXCEPT !.pc = "returned",
                                              !.masterResponse = masterResponse,
                                              !.result = masterResponse.json]
    /\ UNCHANGED <<refs, commits, trees, extMoves, push, fetch, write, log, tool, exited, rival>>

----------------------------------------------------------------------------
(* File contents: text, its base64 form and its blob sha *)

\* an optional argument that was not given
Undefined == "undefined"

\* JavaScript truthiness of an optional string: !value holds of undefined and of ""
Falsy(value) == value \in {Undefined, ""}

Text == {OldContent, NewContent, "x", "y"}

\* a file that is no text: its bytes are not UTF-8
Binary == "r"

\* a file of text outside ASCII
Accented == "e"

Blobs == Text \cup {Binary, Accented}

\* the characters of a string, as code points
StringOf(text) ==
    [o |-> <<111>>, n |-> <<110>>, x |-> <<120>>, y |-> <<121>>, e |-> <<233>>][text]

\* the UTF-8 bytes of a string of code points
RECURSIVE Utf8Encode(_)
Utf8Encode(string) ==
    IF string = <<>> THEN <<>>
    ELSE LET c == Head(string)
             bytes == IF c < 128 THEN <<c>>
                      ELSE IF c < 2048 THEN <<192 + (c \div 64), 128 + (c % 64)>>
                      ELSE IF c < 65536
                      THEN <<224 + (c \div 4096), 128 + ((c \div 64) % 64), 128 + (c % 64)>>
                      ELSE <<240 + (c \div 262144), 128 + ((c \div 4096) % 64),
                             128 + ((c \div 64) % 64), 128 + (c % 64)>>
         IN  bytes \o Utf8Encode(Tail(string))

\* U+FFFD, which takes the place of bytes that are not UTF-8
ReplacementCharacter == 65533

IsContinuation(bytes, i) == i <= Len(bytes) /\ bytes[i] \in 128..191

Drop(seq, n) == SubSeq(seq, n + 1, Len(seq))

\* bytes read as UTF-8: a byte that begins no well-formed sequence becomes U+FFFD
RECURSIVE Utf8Decode(_)
Utf8Decode(bytes) ==
    IF bytes = <<>> THEN <<>>
    ELSE LET b == Head(bytes)
         IN  IF b < 128 THEN <<b>> \o Utf8Decode(Tail(bytes))
             ELSE IF b \in 194..223 /\ IsContinuation(bytes, 2)
             THEN <<((b - 192) * 64) + (bytes[2] - 128)>> \o Utf8Decode(Drop(bytes, 2))
             ELSE IF /\ b \in 224..239
                     /\ IsContinuation(bytes, 2) /\ IsContinuation(bytes, 3)
                     /\ b = 224 => bytes[2] >= 160
                     /\ b = 237 => bytes[2] <= 159
             THEN <<((b - 224) * 4096) + ((bytes[2] - 128) * 64) + (bytes[3] - 128)>>
                  \o Utf8Decode(Drop(bytes, 3))
             ELSE IF /\ b \in 240..244
                     /\ IsContinuation(bytes, 2) /\ IsContinuation(bytes, 3)
                     /\ IsContinuation(bytes, 4)
                     /\ b = 240 => bytes[2] >= 144
                     /\ b = 244 => bytes[2] <= 143
             THEN <<((b - 240) * 262144) + ((bytes[2] - 128) * 4096)
                    + ((bytes[3] - 128) * 64) + (bytes[4] - 128)>>
                  \o Utf8Decode(Drop(bytes, 4))
             ELSE <<ReplacementCharacter>> \o Utf8Decode(Tail(bytes))

Base64Alphabet ==
    << "A", "B", "C", "D", "E", "F", "G", "H", "I", "J", "K", "L", "M", "N", "O", "P",
       "Q", "R", "S", "T", "U", "V", "W", "X", "Y", "Z", "a", "b", "c", "d", "e", "f",
       "g", "h", "i", "j", "k", "l", "m", "n", "o", "p", "q", "r", "s", "t", "u", "v",
       "w", "x", "y", "z", "0", "1", "2", "3", "4", "5", "6", "7", "8", "9", "+", "/" >>

Base64Char(sextet) == Base64Alphabet[sextet + 1]

Base64Sextet(char) == CHOOSE s \in 0..63 : Base64Alphabet[s + 1] = char

\* bytes to base64: three bytes make four characters, the rest is padded with "="
RECURSIVE ToBase64(_)
ToBase64(bytes) ==
    IF bytes = <<>> THEN <<>>
    ELSE LET b1 == bytes[1]
             b2 == IF Len(bytes) >= 2 THEN bytes[2] ELSE 0
             b3 == IF Len(bytes) >= 3 THEN bytes[3] ELSE 0
             c1 == Base64Char(b1 \div 4)
             c2 == Base64Char(((b1 % 4) * 16) + (b2 \div 16))
             c3 == Base64Char(((b2 % 16) * 4) + (b3 \div 64))
             c4 == Base64Char(b3 % 64)
         IN  IF Len(bytes) = 1 THEN <<c1, c2, "=", "=">>
             ELSE IF Len(bytes) = 2 THEN <<c1, c2, c3, "=">>
             ELSE <<c1, c2, c3, c4>> \o ToBase64(Drop(bytes, 3))

IsBase64Char(char) == \E s \in 0..63 : Base64Alphabet[s + 1] = char

\* base64 to bytes: characters outside the alphabet (padding, line breaks) are
\* passed over, four characters make three bytes
RECURSIVE FromSextets(_)
FromSextets(sextets) ==
    IF Len(sextets) < 2 THEN <<>>
    ELSE LET s1 == sextets[1]
             s2 == sextets[2]
             s3 == IF Len(sextets) >= 3 THEN sextets[3] ELSE 0
             s4 == IF Len(sextets) >= 4 THEN sextets[4] ELSE 0
             b1 == (s1 * 4) + (s2 \div 16)
             b2 == ((s2 % 16) * 16) + (s3 \div 4)
             b3 == ((s3 % 4) * 64) + s4
         IN  IF Len(sextets) = 2 THEN <<b1>>
             ELSE IF Len(sextets) = 3 THEN <<b1, b2>>
             ELSE <<b1, b2, b3>> \o FromSextets(Drop(sextets, 4))

FromBase64(encoded) ==
    LET kept == SelectSeq(encoded, IsBase64Char)
    IN  FromSextets([i \in 1..Len(kept) |-> Base64Sextet(kept[i])])

\* Buffer.from(content).toString("base64")
Base64Encode(content) == ToBase64(Utf8Encode(StringOf(content)))

\* Buffer.from(encoded, "base64").toString("utf8")
Base64Decode(encoded) == Utf8Decode(FromBase64(encoded))

\* the bytes of a file in the repository
BlobBytes(content) == IF content = Binary THEN <<255, 254>> ELSE Utf8Encode(StringOf(content))

\* the file whose bytes these are
BlobOf(bytes) == CHOOSE content \in Blobs : BlobBytes(content) = bytes

\* the sha of the blob that holds a content
BlobSha(content) ==
    [o |-> "sha-o", n |-> "sha-n", x |-> "sha-x", y |-> "sha-y",
     r |-> "sha-r", e |-> "sha-e"][content]

\* the content field of a response that has none, and of an empty file
NoContent == <<>>

\* the parsed body of a contents response: a file object, a directory listing
\* (isArray) or an error body with its message
Data(isArray, path, sha, content, entries, message) ==
    [isArray |-> isArray, path |-> path, sha |-> sha, content |-> content,
     entries |-> entries, message |-> message]

NoData == Data(FALSE, "", "", NoContent, <<>>, "")

ErrorBody(message) == Data(FALSE, "", "", NoContent, <<>>, message)

\* the tree of the tip of a branch, and the content of a path in it
TipTree(branch) == commits[refs[branch]].tree

HasBranch(branch) == branch \in RefNames /\ refs[branch] # NoSha

FileAt(branch, path) ==
    IF HasBranch(branch) /\ path \in Paths THEN TipTree(branch)[path] ELSE Absent

\* the entries of the root directory, in the remote's order
Listing(tree) ==
    LET entry(path) == IF tree[path] = Absent THEN <<>>
                       ELSE <<[path |-> path, sha |-> BlobSha(tree[path])]>>
    IN  entry("a") \o entry("b")

\* GET /contents/{path}?ref={ref}; without ref the default branch is read
RemoteGetContents(path, ref) ==
    LET branch == IF ref = Undefined THEN "main" ELSE ref
    IN  IF ~HasBranch(branch)
        THEN Response(FALSE, "Not Found", ErrorBody("Not Found"))
        ELSE IF path = EmptyPath
        THEN Response(TRUE, "OK", Data(TRUE, "", "", NoContent, Listing(TipTree(branch)), ""))
        ELSE IF FileAt(branch, path) = Absent
        THEN Response(FALSE, "Not Found", ErrorBody("Not Found"))
        ELSE Response(TRUE, "OK",
                      Data(FALSE, path, BlobSha(FileAt(branch, path)),
                           ToBase64(BlobBytes(FileAt(branch, path))), <<>>, ""))

\* the refusals of the contents API that do not depend on the path
ContentsFaults ==
    { Response(FALSE, "Forbidden", ErrorBody("API rate limit exceeded")),
      Response(FALSE, "Internal Server Error", ErrorBody("Server Error")) }

----------------------------------------------------------------------------
(* getFileContents *)

\* if (branch) url += `?ref=${branch}`
getFileContentsRef(branch) == IF Falsy(branch) THEN Undefined ELSE branch

\* if (!response.ok) throw
getFileContentsThrows(response) == ~response.ok

\* if (!Array.isArray(data) && data.content) data.content = decoded
getFileContentsData(data) ==
    IF ~data.isArray /\ data.content # NoContent
    THEN [data EXCEPT !.content = Base64Decode(data.content)]
    ELSE data

FetchIdle ==
    [pc |-> "idle", path |-> "", branch |-> Undefined,
     response |-> Response(FALSE, "", NoData), result |-> NoData, error |-> NoError]

\* a call arrives: getFileContents(owner, repo, path, branch?)
FetchCall ==
    /\ fetch.pc \in {"idle", "returned", "threw"}
    /\ \E path \in Paths \cup {EmptyPath}, branch \in {Undefined, "", "main", "dev"} :
          fetch' = [FetchIdle EXCEPT !.pc = "get", !.path = path, !.branch = branch]
    /\ UNCHANGED <<refs, commits, trees, extMoves, push, resolve, write, log, tool, exited, rival>>

\* fetch(url), then the check of the response and the decoding
FetchGet ==
    /\ fetch.pc = "get"
    /\ \E response \in {RemoteGetContents(fetch.path, getFileContentsRef(fetch.branch))}
                          \cup ContentsFaults :
          fetch' = IF getFileContentsThrows(response)
                   THEN [fetch EXCEPT !.pc = "threw", !.response = response,
                                      !.error = GitHubApiError(response)]
                   ELSE [fetch EXCEPT !.pc = "returned", !.response = response,
                                      !.result = getFileContentsData(response.json)]
    /\ UNCHANGED <<refs, commits, trees, extMoves, push, resolve, write, log, tool, exited, rival>>

----------------------------------------------------------------------------
(* createOrUpdateFile *)

\* the body of the PUT; sha = Undefined stands for a body without the sha key
PutBody(message, content, branch, sha) ==
    [message |-> message, content |-> content, branch |-> branch, sha |-> sha]

NoBody == PutBody("", NoContent, "", Undefined)

\* the parsed body of a successful PUT: the new blob sha and the new commit sha
NoResult == [content |-> [sha |-> ""], commit |-> [sha |-> NoSha]]

WriteIdle ==
    [pc |-> "idle", path |-> "", content |-> "", message |-> "", branch |-> "",
     sha |-> Undefined, currentSha |-> Undefined, lookups |-> 0,
     lookup |-> <<>>, existingFile |-> Response(FALSE, "", NoData), body |-> NoBody,
     result |-> NoResult, error |-> NoError, seen |-> NoSha]

\* PUT /contents/{path}: a new file takes no sha, an existing file is replaced
\* only by a request that carries its current blob sha
RemotePutAccepts(path, body) ==
    /\ HasBranch(body.branch)
    /\ path \in Paths
    /\ IF FileAt(body.branch, path) = Absent
       THEN body.sha = Undefined
       ELSE body.sha = BlobSha(FileAt(body.branch, path))

RemotePutRefusal(path, body) ==
    IF ~HasBranch(body.branch) THEN "Not Found"
    ELSE IF path \notin Paths THEN "Unprocessable Entity"
    ELSE IF FileAt(body.branch, path) = Absent \/ body.sha = Undefined
    THEN "Unprocessable Entity"
    ELSE "Conflict"

\* the blob shas the repository has handed out so far
KnownShas ==
    UNION {{BlobSha(commits[c].tree[path]) :
               path \in {q \in Paths : commits[c].tree[q] # Absent}} : c \in 1..Len(commits)}

\* createOrUpdateFile always asking for the existing file
createOrUpdateFileLooksUpAlways(sha) == TRUE

\* let currentSha = sha; if (!currentSha) { ... look the file up ... }
createOrUpdateFileLooksUp(sha) == Falsy(sha)

\* the call as it stands before its first request:
\* let currentSha = sha; if (!currentSha) { ... }
createOrUpdateFileEntry(path, content, message, branch, sha) ==
    [WriteIdle EXCEPT
        !.pc = IF createOrUpdateFileLooksUp(sha) THEN "lookup" ELSE "put",
        !.path = path, !.content = content, !.message = message,
        !.branch = branch, !.sha = sha, !.currentSha = sha]

NoWriteInFlight == write.pc \in {"idle", "returned", "threw"}

\* a call arrives: createOrUpdateFile(owner, repo, path, content, message, branch, sha?)
WriteCall ==
    /\ NoWriteInFlight
    /\ Len(log) < MaxCalls
    /\ \E path \in Paths \cup {EmptyPath}, content \in {"x", "y"},
          sha \in {Undefined, ""} \cup KnownShas :
          write' = createOrUpdateFileEntry(path, content, "w", "main", sha)
    /\ UNCHANGED <<refs, commits, trees, extMoves, push, resolve, fetch, log, tool, exited, rival>>

\* a caller that writes a path three times: first without a sha
FirstWrite ==
    /\ NoWriteInFlight
    /\ log = <<>>
    /\ \E path \in Paths \cup {EmptyPath}, content \in {"x", "y"}, sha \in {Undefined, ""} :
          write' = createOrUpdateFileEntry(path, content, "w", "main", sha)
    /\ UNCHANGED <<refs, commits, trees, extMoves, push, resolve, fetch, log, tool, exited, rival>>

\* ... then with the sha the first write returned
SecondWrite ==
    /\ NoWriteInFlight
    /\ Len(log) = 1
    /\ log[1].ok
    /\ \E content \in {"x", "y"} :
          write' = createOrUpdateFileEntry(log[1].path, content, "w", log[1].branch,
                                           log[1].result.content.sha)
    /\ UNCHANGED <<refs, commits, trees, extMoves, push, resolve, fetch, log, tool, exited, rival>>

\* ... then the second write once more, as it was
ThirdWrite ==
    /\ NoWriteInFlight
    /\ Len(log) = 2
    /\ log[2].ok
    /\ write' = createOrUpdateFileEntry(log[2].path, log[2].content, "w", log[2].branch,
                                        log[2].sha)
    /\ UNCHANGED <<refs, commits, trees, extMoves, push, resolve, fetch, log, tool, exited, rival>>

\* createOrUpdateFile taking the sha of the first entry of a listing
createOrUpdateFileTokenOfListing(currentSha, existingFile) ==
    IF getFileContentsThrows(existingFile) THEN currentSha
    ELSE IF existingFile.json.isArray /\ existingFile.json.entries # <<>>
    THEN existingFile.json.entries[1].sha
    ELSE IF existingFile.json.isArray THEN currentSha
    ELSE getFileContentsData(existingFile.json).sha

\* try { existingFile = await getFileContents(...);
\*       if (!Array.isArray(existingFile)) currentSha = existingFile.sha } catch { }
createOrUpdateFileToken(currentSha, existingFile) ==
    IF getFileContentsThrows(existingFile) THEN currentSha
    ELSE IF getFileContentsData(existingFile.json).isArray THEN currentSha
    ELSE getFileContentsData(existingFile.json).sha

\* the call after the lookup of the existing file at (path, branch)
createOrUpdateFileAfterLookup(w, existingFile) ==
    [w EXCEPT !.pc = "put", !.lookups = @ + 1,
              !.lookup = <<w.path, getFileContentsRef(w.branch)>>,
              !.existingFile = existingFile,
              !.currentSha = createOrUpdateFileToken(w.currentSha, existingFile)]

\* history: the tip of the branch at the moment the lookup was answered
Seen(w) == IF HasBranch(w.branch) THEN refs[w.branch] ELSE NoSha

\* the answers the lookup of a call can get
LookupResponses(w) ==
    {RemoteGetContents(w.path, getFileContentsRef(w.branch))} \cup ContentsFaults

\* the lookup of the existing file at (path, branch)
WriteLookup ==
    /\ write.pc = "lookup"
    /\ \E existingFile \in LookupResponses(write) :
          write' = [createOrUpdateFileAfterLookup(write, existingFile)
                      EXCEPT !.seen = Seen(write)]
    /\ UNCHANGED <<refs, commits, trees, extMoves, push, resolve, fetch, log, tool, exited, rival>>

\* { message, content: encodedContent, branch, ...(currentSha ? { sha: currentSha } : {}) }
createOrUpdateFileBody(w) ==
    PutBody(w.message, Base64Encode(w.content), w.branch,
            IF Falsy(w.currentSha) THEN Undefined ELSE w.currentSha)

\* createOrUpdateFile with its check of response.ok inverted
createOrUpdateFileThrowsInverted(response) == response.ok

\* if (!response.ok) throw
createOrUpdateFileThrows(response) == ~response.ok

\* what the log keeps of a call that has ended
Ended(w) ==
    [path |-> w.path, content |-> w.content, branch |-> w.branch, sha |-> w.sha,
     ok |-> w.pc = "returned", result |-> w.result, error |-> w.error]

\* the PUT of a call: whether the remote takes it, the tree it leaves, its response
PutTaken(w, fault) == ~fault /\ RemotePutAccepts(w.path, createOrUpdateFileBody(w))

PutTree(w) ==
    LET body == createOrUpdateFileBody(w)
    IN  [TipTree(body.branch) EXCEPT ![w.path] = BlobOf(FromBase64(body.content))]

PutResponse(w, fault) ==
    LET body == createOrUpdateFileBody(w)
    IN  IF PutTaken(w, fault)
        THEN Response(TRUE, "OK",
                      [content |-> [sha |-> BlobSha(BlobOf(FromBase64(body.content)))],
                       commit |-> [sha |-> RemoteNewSha]])
        ELSE IF fault THEN Response(FALSE, "Internal Server Error", NoResult)
        ELSE Response(FALSE, RemotePutRefusal(w.path, body), NoResult)

\* the call after its PUT
createOrUpdateFileAfterPut(w, response) ==
    IF createOrUpdateFileThrows(response)
    THEN [w EXCEPT !.pc = "threw", !.body = createOrUpdateFileBody(w),
                   !.error = GitHubApiError(response)]
    ELSE [w EXCEPT !.pc = "returned", !.body = createOrUpdateFileBody(w),
                   !.result = response.json]

\* what a PUT does to the repository: one new commit on the branch, or nothing
RemotePut(w, fault) ==
    LET body == createOrUpdateFileBody(w)
        taken == PutTaken(w, fault)
    IN  /\ trees' = IF taken THEN trees \cup {PutTree(w)} ELSE trees
        /\ commits' = IF taken
                      THEN Append(commits, [message |-> body.message, tree |-> PutTree(w),
                                            parents |-> <<refs[body.branch]>>])
                      ELSE commits
        /\ refs' = IF taken THEN [refs EXCEPT ![body.branch] = RemoteNewSha] ELSE refs

\* the PUT: the remote writes the file as one new commit on the branch, or refuses
WritePut ==
    /\ write.pc = "put"
    /\ \E fault \in BOOLEAN :
          LET ended == createOrUpdateFileAfterPut(write, PutResponse(write, fault))
          IN  /\ RemotePut(write, fault)
              /\ write' = ended
              /\ log' = Append(log, Ended(ended))
    /\ UNCHANGED <<extMoves, push, resolve, fetch, tool, exited, rival>>

----------------------------------------------------------------------------
(* Two createOrUpdateFile calls in flight at once *)

\* a call arrives while no call of this caller is in flight
RaceCall ==
    /\ write.pc = "idle"
    /\ \E path \in Paths, content \in {OldContent, "x"}, sha \in {Undefined, BlobSha(OldContent)} :
          write' = createOrUpdateFileEntry(path, content, "w", "main", sha)
    /\ UNCHANGED <<refs, commits, trees, extMoves, push, resolve, fetch, log, tool, exited, rival>>

\* a call of a second caller arrives
RivalCall ==
    /\ rival.pc = "idle"
    /\ \E path \in Paths, content \in {OldContent, "y"}, sha \in {Undefined, BlobSha(OldContent)} :
          rival' = createOrUpdateFileEntry(path, content, "v", "main", sha)
    /\ UNCHANGED <<refs, commits, trees, extMoves, push, resolve, fetch, log, tool, exited, write>>

RivalLookup ==
    /\ rival.pc = "lookup"
    /\ \E existingFile \in LookupResponses(rival) :
          rival' = [createOrUpdateFileAfterLookup(rival, existingFile)
                      EXCEPT !.seen = Seen(rival)]
    /\ UNCHANGED <<refs, commits, trees, extMoves, push, resolve, fetch, log, tool, exited, write>>

RivalPut ==
    /\ rival.pc = "put"
    /\ \E fault \in BOOLEAN :
          LET ended == createOrUpdateFileAfterPut(rival, PutResponse(rival, fault))
          IN  /\ RemotePut(rival, fault)
              /\ rival' = ended
              /\ log' = Append(log, Ended(ended))
    /\ UNCHANGED <<extMoves, push, resolve, fetch, tool, exited, write>>

----------------------------------------------------------------------------
(* The tool-call boundary: callToolHandler and the handlers of the tools   *)

\* a commit sha as the string the API and the handlers pass around
ShaTexts == <<"sha1", "sha2", "sha3", "sha4", "sha5", "sha6", "sha7", "sha8">>

ShaText(sha) == ShaTexts[sha]

\* the commit whose sha a string is; NoSha when it is the sha of no commit
CommitOfText(text) ==
    IF \E c \in 1..Len(commits) : ShaTexts[c] = text
    THEN CHOOSE c \in 1..Len(commits) : ShaTexts[c] = text
    ELSE NoSha

\* the keys of the `tools` object the model follows
Tools == {"push_files", "create_branch"}

\* a property every object inherits
Inherited == {"constructor"}

ToolNames == Tools \cup Inherited \cup {"no_such_tool"}

\* tools[request.name]
toolsLookup(name) ==
    IF name \in Tools THEN name
    ELSE IF name \in Inherited THEN "inherited"
    ELSE Undefined

\* if (!tool) throw new Error(`Unknown tool: ${request.name}`)
callToolHandlerUnknown(name) == toolsLookup(name) = Undefined

\* tool.handler is not a function
HandlerMissing(name) == toolsLookup(name) = "inherited"

NoParameters == [branch |-> "", files |-> <<>>, from_branch |-> Undefined]

\* the requests the server is sent
ToolRequests ==
    {[name |-> "push_files", parameters |-> [NoParameters EXCEPT !.branch = b, !.files = fs]] :
        b \in {"main", "dev"}, fs \in Batches}
    \cup {[name |-> "create_branch",
           parameters |-> [NoParameters EXCEPT !.branch = b, !.from_branch = f]] :
             b \in {"main", "dev"}, f \in {Undefined, "", "main", "master"}}
    \cup {[name |-> n, parameters |-> NoParameters] : n \in ToolNames \ Tools}

\* a reference as the API returns it
Reference(ref, sha) == [ref |-> ref, sha |-> sha]

NoReference == Reference(<<>>, "")

\* what a handler returns: { success: true } of push_files, the reference of create_branch
ToolResult(success, reference) == [success |-> success, reference |-> reference]

NoToolResult == ToolResult(FALSE, NoReference)

\* the body of the create-reference request
createBranchBody(options) ==
    [ref |-> <<"refs", "heads", options.ref>>, sha |-> options.sha]

NoCreate == [ref |-> <<>>, sha |-> ""]

ToolIdle ==
    [pc |-> "idle", name |-> "", parameters |-> NoParameters, sha |-> Undefined,
     create |-> NoCreate, result |-> NoToolResult, error |-> NoError,
     logged |-> FALSE, calls |-> 0]

\* POST /git/refs: a new reference is made at an existing commit
RemoteCreateRefAccepts(body) ==
    /\ body.ref[3] \in RefNames
    /\ refs[body.ref[3]] = NoSha
    /\ CommitOfText(body.sha) # NoSha

\* callToolHandler dropping the promise of the handler
callToolHandlerDropsPromise == FALSE

\* return tool.handler(request.parameters): the call settles as the handler does
callToolHandlerReturnsPromise == TRUE

\* the call after its handler has settled; a rejection that nothing handles
\* ends the process
Settled(ok, result, error) ==
    IF callToolHandlerReturnsPromise
    THEN [tool EXCEPT !.pc = IF ok THEN "returned" ELSE "threw",
                      !.result = result, !.error = error]
    ELSE [tool EXCEPT !.pc = "returned"]

Unhandled(ok) == ~callToolHandlerReturnsPromise /\ ~ok

\* let sha = params.from_branch; if (!sha) { sha = await getDefaultBranchSHA(...) }
createBranchResolves(from_branch) == Falsy(from_branch)

\* a request arrives: callToolHandler(request), up to the first await of the handler
ToolCall ==
    /\ ~exited
    /\ tool.pc \in {"idle", "returned", "threw"}
    /\ tool.calls < MaxRequests
    /\ \E request \in ToolRequests :
          LET call == [ToolIdle EXCEPT !.name = request.name,
                                       !.parameters = request.parameters,
                                       !.calls = tool.calls + 1]
              params == request.parameters
          IN  IF callToolHandlerUnknown(request.name)
              THEN /\ tool' = [call EXCEPT !.pc = "threw",
                                           !.error = <<"Unknown tool", request.name>>]
                   /\ UNCHANGED <<push, resolve>>
              ELSE IF HandlerMissing(request.name)
              THEN /\ tool' = [call EXCEPT !.pc = "threw", !.logged = TRUE,
                                           !.error = <<"TypeError", "tool.handler is not a function">>]
                   /\ UNCHANGED <<push, resolve>>
              ELSE IF request.name = "push_files"
              THEN /\ tool' = [call EXCEPT !.pc = "pushFiles"]
                   /\ push' = [push EXCEPT ![1] = [Idle EXCEPT !.pc = "getRef",
                                                               !.branch = params.branch,
                                                               !.files = params.files,
                                                               !.message = MessageOf(1)]]
                   /\ UNCHANGED resolve
              ELSE IF createBranchResolves(params.from_branch)
              THEN /\ tool' = [call EXCEPT !.pc = "getDefaultBranchSHA"]
                   /\ resolve' = [ResolveIdle EXCEPT !.pc = "main"]
                   /\ UNCHANGED push
              ELSE /\ tool' = [call EXCEPT !.pc = "createBranch", !.sha = params.from_branch]
                   /\ UNCHANGED <<push, resolve>>
    /\ UNCHANGED <<refs, commits, trees, extMoves, fetch, write, log, exited, rival>>

\* push_files: await pushFiles(...); return { success: true }
ToolPushFiles ==
    /\ ~exited
    /\ tool.pc = "pushFiles"
    /\ push[1].pc \in {"done", "failed"}
    /\ LET ok == push[1].pc = "done"
       IN  /\ tool' = Settled(ok, IF ok THEN ToolResult(TRUE, NoReference) ELSE NoToolResult,
                              push[1].error)
           /\ exited' = Unhandled(ok)
    /\ UNCHANGED <<refs, commits, trees, extMoves, push, resolve, fetch, write, log, rival>>

\* create_branch: sha = await getDefaultBranchSHA(owner, repo)
ToolDefaultBranch ==
    /\ ~exited
    /\ tool.pc = "getDefaultBranchSHA"
    /\ resolve.pc \in {"returned", "threw"}
    /\ IF resolve.pc = "returned"
       THEN /\ tool' = [tool EXCEPT !.pc = "createBranch", !.sha = ShaText(resolve.result)]
            /\ UNCHANGED exited
       ELSE /\ tool' = Settled(FALSE, NoToolResult, resolve.error)
            /\ exited' = Unhandled(FALSE)
    /\ UNCHANGED <<refs, commits, trees, extMoves, push, resolve, fetch, write, log, rival>>

\* if (!response.ok) throw
createBranchThrows(response) == ~response.ok

\* create_branch: return createBranch(owner, repo, { ref: params.branch, sha })
ToolCreateBranch ==
    /\ ~exited
    /\ tool.pc = "createBranch"
    /\ LET body == createBranchBody([ref |-> tool.parameters.branch, sha |-> tool.sha])
       IN  \E fault \in BOOLEAN :
             LET taken == ~fault /\ RemoteCreateRefAccepts(body)
                 response == IF taken THEN Response(TRUE, "Created", Reference(body.ref, body.sha))
                             ELSE IF fault
                             THEN Response(FALSE, "Internal Server Error", NoReference)
                             ELSE Response(FALSE, "Unprocessable Entity", NoReference)
                 ok == ~createBranchThrows(response)
             IN  /\ refs' = IF taken THEN [refs EXCEPT ![body.ref[3]] = CommitOfText(body.sha)]
                            ELSE refs
                 /\ tool' = [Settled(ok, ToolResult(FALSE, response.json),
                                     IF ok THEN NoError ELSE GitHubApiError(response))
                               EXCEPT !.create = body]
                 /\ exited' = Unhandled(ok)
    /\ UNCHANGED <<commits, trees, extMoves, push, resolve, fetch, write, log, rival>>

----------------------------------------------------------------------------
(* The repository the calls start from: two commits, no call in flight *)

Tree1 == [EmptyTree EXCEPT !["a"] = OldContent]
Tree2 == [Tree1 EXCEPT !["b"] = OldContent]

InitObjects ==
    /\ commits = << [message |-> "c1", tree |-> Tree1, parents |-> <<>>],
                    [message |-> "c2", tree |-> Tree2, parents |-> <<1>>] >>
    /\ trees = {Tree1, Tree2}
    /\ extMoves = 0

NoCalls ==
    /\ push = [p \in Pushers |-> Idle]
    /\ resolve = ResolveIdle
    /\ fetch = FetchIdle
    /\ write = WriteIdle
    /\ log = <<>>
    /\ tool = ToolIdle
    /\ exited = FALSE
    /\ rival = WriteIdle

\* pushFiles calls racing each other and another client; main is at commit 2
Init ==
    /\ refs = [r \in RefNames |-> IF r = "main" THEN 2 ELSE NoSha]
    /\ InitObjects
    /\ NoCalls

Next ==
    \/ ExtMove
    \/ \E p \in Pushers : PushCall(p)
    \/ \E p \in Pushers : PushGetRef(p)
    \/ \E p \in Pushers : PushCreateTree(p)
    \/ \E p \in Pushers : PushCreateCommit(p)
    \/ \E p \in Pushers : PushUpdateReference(p)

Spec == Init /\ [][Next]_vars

\* getDefaultBranchSHA on a repository with or without main and master, another
\* client moving the branches
InitResolve ==
    /\ refs \in {r \in [RefNames -> {NoSha, 1, 2}] : r["dev"] = NoSha}
    /\ InitObjects
    /\ NoCalls

NextResolve == ExtMove \/ ResolveCall \/ ResolveMain \/ ResolveMaster

SpecResolve == InitResolve /\ [][NextResolve]_vars

\* a tree whose files are no ASCII text: bytes that are not UTF-8, and an accented letter
Tree3 == [a |-> Binary, b |-> Accented]

\* getFileContents on a repository whose main is at any of three commits
InitFetch ==
    /\ refs \in {r \in [RefNames -> {NoSha, 1, 2, 3}] :
                    r["main"] # NoSha /\ r["master"] = NoSha /\ r["dev"] = NoSha}
    /\ commits = << [message |-> "c1", tree |-> Tree1, parents |-> <<>>],
                    [message |-> "c2", tree |-> Tree2, parents |-> <<1>>],
                    [message |-> "c3", tree |-> Tree3, parents |-> <<2>>] >>
    /\ trees = {Tree1, Tree2, Tree3}
    /\ extMoves = 0
    /\ NoCalls

NextFetch == ExtMove \/ FetchCall \/ FetchGet

SpecFetch == InitFetch /\ [][NextFetch]_vars

\* createOrUpdateFile calls in sequence on main, which holds a and not b
InitWrite ==
    /\ refs = [r \in RefNames |-> IF r = "main" THEN 1 ELSE NoSha]
    /\ InitObjects
    /\ NoCalls

NextWrite == WriteCall \/ WriteLookup \/ WritePut

SpecWrite == InitWrite /\ [][NextWrite]_vars

\* one caller writing a path three times in sequence
NextSequence == FirstWrite \/ SecondWrite \/ ThirdWrite \/ WriteLookup \/ WritePut

SpecSequence == InitWrite /\ [][NextSequence]_vars

\* tool calls in sequence on a repository that has main or master
InitTool ==
    /\ refs \in {[r \in RefNames |-> IF r = "main" THEN 2 ELSE NoSha],
                  [r \in RefNames |-> IF r = "master" THEN 1 ELSE NoSha]}
    /\ InitObjects
    /\ NoCalls

NextTool ==
    \/ ToolCall
    \/ PushGetRef(1)
    \/ PushCreateTree(1)
    \/ PushCreateCommit(1)
    \/ PushUpdateReference(1)
    \/ ToolPushFiles
    \/ ResolveMain
    \/ ResolveMaster
    \/ ToolDefaultBranch
    \/ ToolCreateBranch

SpecTool == InitTool /\ [][NextTool]_vars

\* two createOrUpdateFile calls racing on main, which holds a and not b
NextRace ==
    \/ RaceCall
    \/ WriteLookup
    \/ WritePut
    \/ RivalCall
    \/ RivalLookup
    \/ RivalPut

SpecRace == InitWrite /\ [][NextRace]_vars

----------------------------------------------------------------------------
(* Properties of pushFiles *)

\* the commit objects a pushFiles call has created (its message marks them)
CommitsOf(p) == {c \in 1..Len(commits) : commits[c].message = MessageOf(p)}

\* the update-reference request of p has been sent
Patched(p) == push[p].patch # NoRequest

\* the content the batch gives a path: that of its last entry for the path
BatchPaths(files) == {files[i].path : i \in 1..Len(files)}

BatchContent(files, path) ==
    LET last == CHOOSE i \in 1..Len(files) :
                   /\ files[i].path = path
                   /\ \A j \in (i + 1)..Len(files) : files[j].path # path
    IN  files[last].content

\* the tree a batch must produce over a base tree
Published(base, files) ==
    [path \in Paths |-> IF path \in BatchPaths(files)
                        THEN BatchContent(files, path)
                        ELSE base[path]]

\* C1: all-or-nothing visibility.  A step of a pushFiles call that ends it in
\* failure leaves every ref as it was, and a step of a call that moves a ref is
\* its last one, ends in success and moves the call's own branch to the commit it
\* created, whose tree is the whole batch over the tip read in step 1: the branch
\* is never moved to anything in between.  With no other writer, a failed call
\* that had built its tree finds the branch at the tip it had before the call.
C1_AllOrNothing ==
    /\ [](\A p \in Pushers :
            (/\ push[p].pc = "failed"
             /\ extMoves = 0
             /\ \A q \in Pushers \ {p} : push[q].pc # "done")
            => refs["main"] = 2 /\ refs["dev"] = NoSha)
    /\ [][\A p \in Pushers :
            push'[p] # push[p] =>
              /\ push'[p].pc = "failed" => refs' = refs
              /\ refs' # refs =>
                   /\ push'[p].pc = "done"
                   /\ refs' = [refs EXCEPT ![push[p].branch] = push[p].commit]
                   /\ push[p].commit \in CommitsOf(p)
                   /\ commits[push[p].commit].tree =
                         Published(commits[push[p].latestCommitSha].tree, push[p].files)]_vars

\* a call failed at create-commit or update-reference, after its tree was built,
\* and the branch is at its original tip
C1_Witness ==
    \E p \in Pushers :
       /\ push[p].pc = "failed"
       /\ Patched(p)
       /\ push[p].tree \in trees \ {Tree1, Tree2}
       /\ extMoves = 0
       /\ refs["main"] = 2

\* C2 as stated: whenever the branch tip at the update-reference call differs
\* from the tip read in step 1, the call fails and the branch stays where it was.
C2_FailsOnAnyChange ==
    [][\A p \in Pushers :
         (/\ push[p].pc = "updateReference"
          /\ push'[p] # push[p]
          /\ refs[push[p].branch] # push[p].latestCommitSha)
         => push'[p].pc = "failed" /\ refs' = refs]_vars

\* C2 amended: when the branch tip at the update-reference call is neither the
\* tip read in step 1, nor an ancestor of it, nor the commit the call created,
\* the update-reference call fails and the branch keeps that tip.
C2_FastForwardOnly ==
    [][\A p \in Pushers :
         (/\ push[p].pc = "updateReference"
          /\ push'[p] # push[p]
          /\ refs[push[p].branch] # push[p].commit
          /\ ~IsAncestorOrSelf(refs[push[p].branch], push[p].latestCommitSha))
         => /\ push'[p].pc = "failed"
            /\ refs' = refs
            /\ refs'[push[p].branch] # push[p].commit]_vars

\* a call whose update was refused as no fast-forward, the branch being at
\* another client's commit
C2_Witness ==
    \E p \in Pushers :
       /\ push[p].pc = "failed"
       /\ push[p].error = <<"GitHub API error", "Conflict">>
       /\ refs[push[p].branch] # push[p].latestCommitSha
       /\ refs[push[p].branch] # push[p].commit

\* C3: every update-reference request of pushFiles carries force = false; when
\* two calls on one branch have read the same tip and no other client moves the
\* branch, at most one of them succeeds, the branch ends at the successful
\* call's commit, and the update-reference that comes after a successful one is
\* refused (Conflict, or the remote being unavailable) and moves nothing.
SameTip(p, q) ==
    /\ p # q
    /\ extMoves = 0
    /\ push[p].branch = push[q].branch
    /\ push[p].latestCommitSha # NoSha
    /\ push[p].latestCommitSha = push[q].latestCommitSha

C3_NoLostUpdate ==
    /\ [](\A p \in Pushers :
            /\ Patched(p) => push[p].patch.force = FALSE
            /\ \A q \in Pushers :
                 (SameTip(p, q) /\ push[p].pc = "done")
                 => /\ push[q].pc # "done"
                    /\ refs[push[p].branch] = push[p].commit)
    /\ [][\A p, q \in Pushers :
            (/\ SameTip(p, q)
             /\ push[p].pc = "done"
             /\ push[q].pc = "updateReference"
             /\ push'[q] # push[q])
            => /\ push'[q].pc = "failed"
               /\ push'[q].error \in {<<"GitHub API error", "Conflict">>,
                                      <<"GitHub API error", "Internal Server Error">>}
               /\ refs' = refs]_vars

\* both calls read the same tip, one succeeded and the other was refused
C3_Witness ==
    \E p, q \in Pushers :
       /\ SameTip(p, q)
       /\ push[p].pc = "done"
       /\ push[q].pc = "failed"
       /\ push[q].error = <<"GitHub API error", "Conflict">>
       /\ refs[push[p].branch] = push[p].commit

\* C4: the batch goes out as one create-tree request, an entry of mode 100644
\* and type blob per file, over the tip read in step 1; every commit a call
\* creates, and so the branch tip at the moment the call succeeds, has the tree
\* that maps each path of the batch to its new content and every other path to
\* what the tree of the step-1 tip held.
C4_SuccessPostcondition ==
    /\ [](\A p \in Pushers :
            /\ push[p].pc = "createTree" =>
                 LET body == pushFilesTreeBody(p)
                 IN  /\ body.base_tree = push[p].latestCommitSha
                     /\ Len(body.tree) = Len(push[p].files)
                     /\ \A i \in 1..Len(body.tree) :
                          body.tree[i] = [path |-> push[p].files[i].path,
                                          mode |-> "100644", type |-> "blob",
                                          content |-> push[p].files[i].content]
            /\ \A c \in CommitsOf(p) :
                 commits[c].tree =
                    Published(commits[push[p].latestCommitSha].tree, push[p].files))
    /\ [][\A p \in Pushers :
            (push[p].pc # "done" /\ push'[p].pc = "done")
            => LET tip == commits'[refs'[push[p].branch]].tree
                   base == commits[push[p].latestCommitSha].tree
               IN  \A path \in Paths :
                     tip[path] = IF path \in BatchPaths(push[p].files)
                                 THEN BatchContent(push[p].files, path)
                                 ELSE base[path]]_vars

\* a successful call that wrote one path and kept the other
C4_Witness ==
    \E p \in Pushers :
       /\ push[p].pc = "done"
       /\ BatchPaths(push[p].files) = {"a"}
       /\ refs["main"] = push[p].commit
       /\ commits[push[p].commit].tree = [a |-> NewContent, b |-> OldContent]

\* C5: a call creates at most one commit, exactly one when it succeeds; the
\* commit has exactly one parent, the tip read in step 1, and the tree created in
\* step 2; the sha of the update-reference request is the sha create-commit
\* returned, that of this commit.
C5_OneCommit ==
    \A p \in Pushers :
       /\ Cardinality(CommitsOf(p)) <= 1
       /\ push[p].pc \in {"updateReference", "done"} => CommitsOf(p) = {push[p].commit}
       /\ Patched(p) => CommitsOf(p) = {push[p].patch.sha}
       /\ \A c \in CommitsOf(p) :
            /\ commits[c].parents = <<push[p].latestCommitSha>>
            /\ IsCommit(push[p].latestCommitSha)
            /\ commits[c].tree = push[p].tree
            /\ commits[c].tree \in trees

\* a successful call: its one commit is the branch tip
C5_Witness ==
    \E p \in Pushers :
       /\ push[p].pc = "done"
       /\ CommitsOf(p) = {refs[push[p].branch]}

\* C9: a call whose batch has an entry with an empty path never creates a
\* tree, never creates a commit and never moves a ref; its create-tree request
\* is refused as a whole and the call ends in failure with that refusal.
HasInvalidPath(files) == \E i \in 1..Len(files) : files[i].path \notin Paths

C9_InvalidBatchFails ==
    /\ [](\A p \in Pushers :
            HasInvalidPath(push[p].files) =>
              /\ push[p].pc \in {"getRef", "createTree", "failed"}
              /\ CommitsOf(p) = {}
              /\ ~Patched(p))
    /\ [][\A p \in Pushers :
            (HasInvalidPath(push[p].files) /\ push'[p] # push[p]) =>
              /\ trees' = trees /\ commits' = commits /\ refs' = refs
              /\ push[p].pc = "createTree" =>
                   /\ push'[p].pc = "failed"
                   /\ push'[p].error \in {<<"GitHub API error", "Unprocessable Entity">>,
                                          <<"GitHub API error", "Internal Server Error">>}]_vars

\* a batch of a valid and an invalid entry was refused at create-tree
C9_Witness ==
    \E p \in Pushers :
       /\ Len(push[p].files) = 2
       /\ push[p].files[1].path = "a"
       /\ push[p].files[2].path = EmptyPath
       /\ push[p].pc = "failed"
       /\ push[p].error = <<"GitHub API error", "Unprocessable Entity">>
       /\ trees = {Tree1, Tree2}
       /\ refs["main"] = 2


\* q ran after p had succeeded, on the same branch and with the same files,
\* and no other client moved the branch
InSequence(p, q) ==
    /\ p # q
    /\ extMoves = 0
    /\ push[p].pc = "done"
    /\ push[q].branch = push[p].branch
    /\ push[q].files = push[p].files

\* C13: when a pushFiles call has succeeded and a second call with the same
\* files on the same branch reads the branch tip after it, the second call
\* starts from the commit of the first; when it succeeds too, the two calls have
\* created two commits of different shas and the same tree, the only parent of
\* the second commit is the first commit, and the second call leaves the branch
\* at the second commit.
C13_RepeatedBatch ==
    /\ [](\A p, q \in Pushers :
            (InSequence(p, q) /\ push[q].pc = "done"
                              /\ push[q].latestCommitSha = push[p].commit)
            => /\ push[p].commit # push[q].commit
               /\ CommitsOf(p) = {push[p].commit}
               /\ CommitsOf(q) = {push[q].commit}
               /\ commits[push[q].commit].tree = commits[push[p].commit].tree
               /\ commits[push[q].commit].parents = <<push[p].commit>>
               /\ refs[push[q].branch] = push[q].commit)
    /\ [][\A p, q \in Pushers :
            (InSequence(p, q) /\ push[q].pc = "getRef" /\ push'[q].pc = "createTree")
            => push'[q].latestCommitSha = push[p].commit]_vars

\* the same batch of two files was published twice in sequence
C13_Witness ==
    \E p, q \in Pushers :
       /\ InSequence(p, q)
       /\ Len(push[p].files) = 2
       /\ push[q].pc = "done"
       /\ push[q].latestCommitSha = push[p].commit
       /\ refs["main"] = push[q].commit
       /\ push[q].commit # push[p].commit

\* the remote calls of a pushFiles run, in the order of the algorithm
Steps == <<"getRef", "createTree", "createCommit", "updateReference">>

IsPrefix(s, t) == Len(s) <= Len(t) /\ s = SubSeq(t, 1, Len(s))

\* the position a run is at after its calls, when none of them failed
PositionAfter(calls) ==
    IF Len(calls) = Len(Steps) THEN "done" ELSE Steps[Len(calls) + 1]

\* C14: the remote calls of a pushFiles run are a prefix of read-branch-ref,
\* create-tree, create-commit, update-reference: each is issued at most once, in
\* that order, and only with the result of the one before it; a step of a run
\* issues exactly the one call that comes next and either ends the run in
\* failure or takes it to the call after it, and a run that has ended issues
\* nothing more; a failed read of the branch (the branch does not exist, or the
\* remote is unavailable) is reported as the run's error and creates no tree and
\* no commit and moves no ref.
C14_SequentialFailFast ==
    /\ [](\A p \in Pushers :
            /\ IsPrefix(push[p].calls, Steps)
            /\ push[p].pc \notin {"idle", "failed"} => push[p].pc = PositionAfter(push[p].calls)
            /\ push[p].pc = "failed" => push[p].calls # <<>> /\ push[p].error # NoError
            /\ Len(push[p].calls) >= 2 => IsCommit(push[p].latestCommitSha)
            /\ Len(push[p].calls) >= 3 => push[p].tree \in trees
            /\ Len(push[p].calls) >= 4 => push[p].commit \in CommitsOf(p)
            /\ (push[p].pc = "failed" /\ push[p].calls = <<"getRef">>) =>
                 /\ CommitsOf(p) = {}
                 /\ push[p].tree = EmptyTree
                 /\ push[p].commit = NoSha
                 /\ ~Patched(p))
    /\ [][\A p \in Pushers :
            push'[p] # push[p] =>
              /\ push[p].pc \notin {"done", "failed"}
              /\ push[p].pc # "idle" =>
                   /\ push'[p].calls = Append(push[p].calls, push[p].pc)
                   /\ push'[p].pc \in {"failed", PositionAfter(push'[p].calls)}
              /\ push[p].pc = "getRef" =>
                   /\ trees' = trees /\ commits' = commits /\ refs' = refs
                   /\ refs[push[p].branch] = NoSha =>
                        /\ push'[p].pc = "failed"
                        /\ push'[p].error \in {<<"GitHub API error", "Not Found">>,
                                               <<"GitHub API error", "Internal Server Error">>}
              /\ (push'[p].pc = "failed" /\ push[p].pc # "updateReference") => ~Patched(p)']_vars

\* a run on a branch that does not exist ended at its first call, a tree or a
\* commit being created by nobody
C14_Witness ==
    \E p \in Pushers :
       /\ push[p].branch = "dev"
       /\ push[p].pc = "failed"
       /\ push[p].calls = <<"getRef">>
       /\ push[p].error = <<"GitHub API error", "Not Found">>
       /\ trees = {Tree1, Tree2}
       /\ Len(commits) = 2

----------------------------------------------------------------------------
(* Properties of getDefaultBranchSHA *)

\* C6 as stated: a call that returns gives the tip of main when main exists and
\* the tip of master when main does not exist and master does; it throws only
\* when both lookups failed; master is looked up only after the lookup of main
\* failed; and every call looks the refs up anew.
C6_BranchFallback ==
    [][(resolve.pc \in {"main", "master"} /\ resolve' # resolve) =>
         /\ resolve'.pc = "returned" =>
              resolve'.result = IF refs["main"] # NoSha THEN refs["main"] ELSE refs["master"]
         /\ resolve'.pc = "threw" =>
              ~resolve'.response.ok /\ ~resolve'.masterResponse.ok
         /\ resolve.pc = "master" => ~resolve.response.ok
         /\ resolve.pc = "main" => resolve.result = NoSha /\ resolve.response = NoResponse]_vars

----------------------------------------------------------------------------
(* Properties of getFileContents *)

Names(error, text) == \E i \in 1..Len(error) : error[i] = text

\* C10 as stated: a failed call reports Not Found when the path or the ref does
\* not exist, and for every other refusal its error carries the status of the
\* response and the message of the response body.
C10_ErrorOutcomes ==
    fetch.pc = "threw" =>
       IF fetch.response.statusText = "Not Found"
       THEN Names(fetch.error, "Not Found")
       ELSE /\ Names(fetch.error, fetch.response.statusText)
            /\ Names(fetch.error, fetch.response.json.message)

\* the branch a getFileContents call reads
FetchBranch == IF Falsy(fetch.branch) THEN "main" ELSE fetch.branch

\* C11 as stated: a call on a directory path returns the entries in the order
\* the remote gave them, none of them altered; a call on a file path returns a
\* single object whose content is text equal to the bytes of the file, which the
\* remote sent as base64; nothing but the content of a single file is decoded.
C11_FileOrDirectory ==
    [][(fetch.pc = "get" /\ fetch'.pc = "returned") =>
         IF fetch.path = EmptyPath
         THEN /\ fetch'.result.isArray
              /\ fetch'.result = fetch'.response.json
              /\ fetch'.result.entries = Listing(TipTree(FetchBranch))
         ELSE /\ ~fetch'.result.isArray
              /\ fetch'.result = [fetch'.response.json EXCEPT !.content = fetch'.result.content]
              /\ Utf8Encode(fetch'.result.content) = BlobBytes(FileAt(FetchBranch, fetch.path))]_vars

----------------------------------------------------------------------------
(* Properties of createOrUpdateFile *)

WriteEnded == write.pc \in {"returned", "threw"}

Conflict == <<"GitHub API error", "Conflict">>

ServerError == <<"GitHub API error", "Internal Server Error">>

\* the call e wrote a path that did not exist before it
Created(e) ==
    /\ e.ok
    /\ e.path \in Paths
    /\ commits[commits[e.result.commit.sha].parents[1]].tree[e.path] = Absent

\* the first write: no sha, on a path that does not exist
IsFirstWrite ==
    /\ log = <<>>
    /\ Falsy(write.sha)
    /\ write.path \in Paths
    /\ FileAt(write.branch, write.path) = Absent

\* the second write: on the path the first created, with the sha the first returned
IsSecondWrite ==
    /\ Len(log) = 1
    /\ Falsy(log[1].sha)
    /\ Created(log[1])
    /\ write.path = log[1].path
    /\ write.branch = log[1].branch
    /\ write.sha = log[1].result.content.sha

\* the third write: the second, which succeeded, once more
IsThirdWrite ==
    /\ Len(log) = 2
    /\ Falsy(log[1].sha)
    /\ Created(log[1])
    /\ log[2].ok
    /\ log[2].path = log[1].path
    /\ log[2].branch = log[1].branch
    /\ log[2].sha = log[1].result.content.sha
    /\ write.path = log[2].path
    /\ write.branch = log[2].branch
    /\ write.content = log[2].content
    /\ write.sha = log[2].sha

\* the first two writes succeed, unless the remote is unavailable, and leave
\* the file at the content they wrote
FirstAndSecondSucceed ==
    (IsFirstWrite \/ IsSecondWrite) =>
       \/ write'.error = ServerError /\ refs' = refs
       \/ /\ write'.pc = "returned"
          /\ write'.result.content.sha = BlobSha(write.content)
          /\ FileAt(write.branch, write.path)' = write.content

\* the third write is refused and the file stays as the second write left it
ThirdRefused ==
    /\ write'.pc = "threw"
    /\ write'.error \in {Conflict, ServerError}
    /\ refs' = refs
    /\ commits' = commits
    /\ FileAt(write.branch, write.path)' = log[2].content

\* C7 as stated: the first write creates the file, the second, carrying the
\* sha the first returned, succeeds, and the second write made once more with
\* the same sha is refused and leaves the file at the second write's content.
C7_StaleShaRefused ==
    [][(write.pc = "put" /\ write' # write) =>
         /\ FirstAndSecondSucceed
         /\ IsThirdWrite => ThirdRefused]_vars

\* C7 amended: ... and the second write made once more with the same sha is
\* refused and leaves the file at the second write's content, when the second
\* write changed the content of the file (a second write of the content the
\* file already had leaves the blob sha as it was, and the write made once
\* more succeeds).
C7_ConditionalWrites ==
    [][(write.pc = "put" /\ write' # write) =>
         /\ FirstAndSecondSucceed
         /\ (IsThirdWrite /\ log[2].content # log[1].content) => ThirdRefused]_vars

\* b was created, rewritten with the returned sha, and the repeat was refused
C7_Witness ==
    /\ Len(log) = 3
    /\ log[1].path = "b" /\ log[1].ok /\ log[1].sha = Undefined
    /\ log[2].ok /\ log[2].sha = BlobSha(log[1].content)
    /\ log[2].content # log[1].content
    /\ ~log[3].ok /\ log[3].error = Conflict
    /\ FileAt("main", "b") = log[2].content

\* the sha of the PUT when the caller gave none: that of the file found,
\* none after a listing or a failed lookup
TokenFound ==
    IF write.existingFile.ok /\ ~write.existingFile.json.isArray
    THEN write.existingFile.json.sha
    ELSE Undefined

\* C8 as stated: with a sha supplied no lookup is made and the PUT carries that
\* sha.
C8_SuppliedShaUsed ==
    write.sha # Undefined =>
       /\ write.lookups = 0
       /\ WriteEnded => write.body.sha = write.sha

\* C8 amended: with a non-empty sha supplied no lookup is made and the PUT
\* carries exactly that sha; with no sha, or an empty one, exactly one lookup
\* at (path, branch) is made and the PUT carries the sha of the file found, and
\* no sha after a directory listing or a failed lookup; a lookup that fails,
\* for whatever reason, is followed by the PUT and never ends the call.
C8_TokenSelection ==
    /\ [](/\ ~Falsy(write.sha) =>
               /\ write.lookups = 0
               /\ write.pc # "lookup"
               /\ WriteEnded => write.body.sha = write.sha
          /\ (Falsy(write.sha) /\ write.pc \in {"put", "returned", "threw"}) =>
               /\ write.lookups = 1
               /\ write.lookup = <<write.path, write.branch>>
               /\ WriteEnded => write.body.sha = TokenFound
          /\ write.pc = "threw" => write.body # NoBody)
    /\ [][(write.pc = "lookup" /\ write' # write) =>
            /\ write'.pc = "put"
            /\ write'.error = NoError
            /\ log' = log]_vars

\* the lookup of an existing file failed for another reason than absence, and
\* the PUT went out without a sha
C8_Witness ==
    /\ write.sha = Undefined
    /\ write.path = "a"
    /\ write.existingFile.statusText = "Forbidden"
    /\ WriteEnded
    /\ write.body.sha = Undefined
    /\ write.body.content = Base64Encode(write.content)

----------------------------------------------------------------------------
(* Properties of the tool-call boundary *)

ToolEnded == tool.pc \in {"returned", "threw"}

RefusedOrUnavailable ==
    {<<"GitHub API error", "Unprocessable Entity">>, <<"GitHub API error", "Internal Server Error">>}

\* C12: a call whose handler fails ends in failure with the handler's own
\* error (that of pushFiles, of getDefaultBranchSHA or of createBranch), and a
\* call that names no registered tool ends in failure without reaching any
\* handler; the process never exits on it, and after a failed call the next
\* call is taken; push_files returns { success: true } exactly when its
\* pushFiles ended without error.
C12_FailureIsolation ==
    /\ [](/\ ~exited
          /\ (tool.name = "push_files" /\ ToolEnded) =>
               /\ tool.pc = "returned" <=> push[1].pc = "done"
               /\ tool.pc = "returned" <=> tool.result = ToolResult(TRUE, NoReference)
               /\ tool.pc = "threw" => tool.error = push[1].error /\ tool.error # NoError
          /\ tool.result.success => tool.name = "push_files" /\ push[1].pc = "done"
          /\ tool.name = "no_such_tool" =>
               tool.pc = "threw" /\ tool.error = <<"Unknown tool", tool.name>>
          /\ tool.name \in Inherited => tool.pc = "threw" /\ tool.error # NoError
          /\ (tool.pc = "threw" /\ tool.calls < MaxRequests) => ENABLED ToolCall)
    /\ [][tool' # tool =>
            /\ (tool.pc = "pushFiles" /\ push[1].pc = "failed") =>
                 tool'.pc = "threw" /\ tool'.error = push[1].error
            /\ (tool.pc = "getDefaultBranchSHA" /\ resolve.pc = "threw") =>
                 tool'.pc = "threw" /\ tool'.error = resolve.error
            /\ tool.pc = "createBranch" =>
                 IF refs' = refs
                 THEN tool'.pc = "threw" /\ tool'.error \in RefusedOrUnavailable
                 ELSE tool'.pc = "returned" /\ tool'.error = NoError
            /\ tool'.pc = "threw" => refs' = refs /\ commits' = commits]_vars

\* a create_branch call failed at getDefaultBranchSHA, and the push_files call
\* sent after it was served and succeeded
C12_Witness ==
    /\ ~exited
    /\ tool.calls = 2
    /\ resolve.pc = "threw"
    /\ tool.name = "push_files"
    /\ tool.pc = "returned"
    /\ tool.result.success
    /\ refs[push[1].branch] = push[1].commit

\* the branch create_branch is to start the new branch from, when one is named
SourceBranch == tool.parameters.from_branch

\* C15 as stated: the sha of every create-reference request of create_branch is
\* the sha of a commit, the tip the remote gave for the source branch: that of
\* from_branch when it is supplied, the result of getDefaultBranchSHA otherwise;
\* the request names refs/heads/{branch}, is sent only after the resolution
\* succeeded, and no reference is created when the resolution fails.
C15_BranchFromCommit ==
    /\ [](tool.name = "create_branch" =>
            /\ tool.pc = "createBranch" =>
                 /\ CommitOfText(tool.sha) # NoSha
                 /\ IF Falsy(SourceBranch)
                    THEN resolve.pc = "returned" /\ tool.sha = ShaText(resolve.result)
                    ELSE CommitOfText(tool.sha) = refs[SourceBranch]
            /\ tool.create # NoCreate =>
                 /\ tool.create.ref = <<"refs", "heads", tool.parameters.branch>>
                 /\ CommitOfText(tool.create.sha) # NoSha)
    /\ [][(tool.name = "create_branch" /\ tool' # tool) =>
            /\ (tool.pc = "getDefaultBranchSHA" /\ resolve.pc = "threw") =>
                 /\ tool'.pc = "threw"
                 /\ tool'.create = NoCreate
                 /\ refs' = refs
            /\ refs' # refs =>
                 /\ tool.pc = "createBranch"
                 /\ refs' = [refs EXCEPT ![tool.parameters.branch] = CommitOfText(tool.sha)]]_vars

----------------------------------------------------------------------------
(* Properties of racing createOrUpdateFile calls *)

\* the lookup of the call found a single file
Probed(w) == w.lookups = 1 /\ w.existingFile.ok /\ ~w.existingFile.json.isArray

\* two calls without a sha on the same existing path and branch, which both
\* found the same blob sha before either of them wrote
Race(w, v) ==
    /\ Falsy(w.sha) /\ Falsy(v.sha)
    /\ w.path = v.path /\ w.branch = v.branch
    /\ Probed(w) /\ Probed(v)
    /\ w.seen = v.seen
    /\ w.existingFile.json.sha = v.existingFile.json.sha

\* the PUT of a call that has returned was taken: its commit holds the content
Written(w) ==
    /\ IsCommit(w.result.commit.sha)
    /\ w.path \in Paths
    /\ commits[w.result.commit.sha].tree[w.path] = w.content
    /\ w.result.content.sha = BlobSha(w.content)

\* the lookup of the call failed for another reason than absence
ProbeFailed(w) ==
    /\ w.lookups = 1
    /\ ~w.existingFile.ok
    /\ w.existingFile.statusText # "Not Found"

\* a PUT step of a call moves the branch over an existing file only when it
\* carries the current blob sha of the file, and a PUT sent without a sha after
\* a failed lookup is refused when the file exists
OnlyWithToken(w, after) ==
    (w.pc = "put" /\ after # w) =>
       /\ (refs' # refs /\ FileAt(w.branch, w.path) # Absent) =>
            /\ after.pc = "returned"
            /\ after.body.sha = BlobSha(FileAt(w.branch, w.path))
       /\ (ProbeFailed(w) /\ Falsy(w.sha) /\ FileAt(w.branch, w.path) # Absent) =>
            /\ after.body.sha = Undefined
            /\ after.pc = "threw"
            /\ refs' = refs /\ commits' = commits
       /\ \A path \in Paths \ {w.path} : FileAt(w.branch, path)' = FileAt(w.branch, path)

\* C16 as stated: of two racing calls that found the same blob sha at most one
\* returns; a file that exists is replaced only by a PUT that carries its
\* current blob sha, also after a lookup that failed for another reason than
\* absence.
C16_AtMostOneWrite ==
    /\ [](Race(write, rival) => ~(write.pc = "returned" /\ rival.pc = "returned"))
    /\ [][OnlyWithToken(write, write') /\ OnlyWithToken(rival, rival')]_vars

\* C16 amended: of two racing calls that found the same blob sha both return
\* only when the PUT that came first wrote the content the file already had (the
\* blob sha is then still current); in every other case at most one returns and
\* the other is refused.  A call returns only when its PUT was taken.  A file
\* that exists is replaced only by a PUT that carries its current blob sha, also
\* after a lookup that failed for another reason than absence.
C16_NoLostWrite ==
    /\ [](/\ (Race(write, rival) /\ write.pc = "returned" /\ rival.pc = "returned") =>
               BlobSha(log[1].content) = write.existingFile.json.sha
          /\ write.pc = "returned" => Written(write)
          /\ rival.pc = "returned" => Written(rival))
    /\ [][OnlyWithToken(write, write') /\ OnlyWithToken(rival, rival')]_vars

\* both calls found the blob of a, the first PUT changed the file and the
\* second was refused as a conflict
C16_Witness ==
    /\ Race(write, rival)
    /\ write.path = "a"
    /\ Len(log) = 2
    /\ log[1].ok /\ log[1].content # OldContent
    /\ ~log[2].ok /\ log[2].error = Conflict
    /\ FileAt("main", "a") = log[1].content

====
